---------------------------- MODULE Spec2Model ----------------------------
(***************************************************************************)
(* A model of Scripts/crawler.py (class EnhancedCrawler): the URL frontier *)
(* kept in Redis (url_queue, seen_urls, downloaded_files), the crawl loop  *)
(* of run(), process_url with its two fetch tiers and the recursion        *)
(* through check_for_embedded_documents, the accept gate should_download,  *)
(* the year heuristics and save_file.                                      *)
(*                                                                         *)
(* Python str values are TLA+ strings; TLC evaluates Len, \o and SubSeq on *)
(* them.  None is the model value None == "<None>".                        *)
(***************************************************************************)
EXTENDS Integers, Sequences, FiniteSets, TLC

(***************************************************************************)
(* Bounds of the model.                                                    *)
(***************************************************************************)
\* deepest nesting of process_url calls the model follows
MaxDepth == 3

None == "<None>"

(***************************************************************************)
(* Python string primitives.                                               *)
(***************************************************************************)
Ch(s, i) == SubSeq(s, i, i)

\* s[i-1:] of Python, i is 1-based
From(s, i) == IF i > Len(s) THEN "" ELSE SubSeq(s, i, Len(s))

\* s[:i] of Python (the first i characters)
Upto(s, i) == IF i <= 0 THEN "" ELSE SubSeq(s, 1, IF i > Len(s) THEN Len(s) ELSE i)

MatchAt(s, p, i) ==
    /\ i >= 1
    /\ i + Len(p) - 1 <= Len(s)
    /\ SubSeq(s, i, i + Len(p) - 1) = p

Least(S) == CHOOSE i \in S : \A j \in S : i <= j

Greatest(S) == CHOOSE i \in S : \A j \in S : i >= j

\* the least member of S, d when S is empty
LeastOr(S, d) == IF S = {} THEN d ELSE Least(S)

\* the greatest member of S, d when S is empty
GreatestOr(S, d) == IF S = {} THEN d ELSE Greatest(S)

\* 1-based index of the first occurrence of p in s, 0 when there is none
\* (str.find, shifted by one)
Find(s, p) == LeastOr({i \in 1..(Len(s) + 1) : MatchAt(s, p, i)}, 0)

\* 1-based index of the last occurrence (str.rfind)
RFind(s, p) == GreatestOr({i \in 1..(Len(s) + 1) : MatchAt(s, p, i)}, 0)

\* p in s
Contains(s, p) == Find(s, p) # 0

StartsWith(s, p) == MatchAt(s, p, 1)

EndsWith(s, p) == Len(p) <= Len(s) /\ MatchAt(s, p, Len(s) - Len(p) + 1)

UpperAlpha == "ABCDEFGHIJKLMNOPQRSTUVWXYZ"
LowerAlpha == "abcdefghijklmnopqrstuvwxyz"
DigitChars == "0123456789"

IsDigit(c) == Len(c) = 1 /\ Contains(DigitChars, c)

\* \w of the re module, on the characters the model uses
IsWordChar(c) ==
    Len(c) = 1 /\ Contains(DigitChars \o UpperAlpha \o LowerAlpha \o "_", c)

LowerCh(c) == Ch(c \o LowerAlpha, Find(UpperAlpha, c) + 1)

RECURSIVE Lower(_)
\* str.lower
Lower(s) == IF s = "" THEN "" ELSE LowerCh(Ch(s, 1)) \o Lower(From(s, 2))

RECURSIVE Replace(_, _, _)
\* str.replace(old, new): every non-overlapping occurrence, left to right
Replace(s, old, new) ==
    LET at(k) == IF k = 0 \/ old = "" THEN s
                 ELSE Upto(s, k - 1) \o new
                      \o Replace(From(s, k + Len(old)), old, new)
    IN  at(Find(s, old))

RECURSIVE Split(_, _)
\* str.split(sep): a sequence of strings, never empty
Split(s, sep) ==
    LET at(k) == IF k = 0 THEN <<s>>
                 ELSE <<Upto(s, k - 1)>> \o Split(From(s, k + Len(sep)), sep)
    IN  at(Find(s, sep))

RECURSIVE Join(_, _)
\* sep.join(parts)
Join(parts, sep) ==
    IF Len(parts) = 0 THEN ""
    ELSE IF Len(parts) = 1 THEN parts[1]
    ELSE parts[1] \o sep \o Join(Tail(parts), sep)

\* str.strip('/')
RECURSIVE StripSlash(_)
StripSlash(s) ==
    IF s = "" THEN ""
    ELSE IF Ch(s, 1) = "/" THEN StripSlash(From(s, 2))
    ELSE IF Ch(s, Len(s)) = "/" THEN StripSlash(Upto(s, Len(s) - 1))
    ELSE s

\* the printable ASCII characters 32..95 and 97..126, in code point order
\* (the character 96 cannot be written in a TLA+ string)
AsciiLow ==
    " !" \o "\"" \o "#$%&'()*+,-./0123456789:;<=>?@ABCDEFGHIJKLMNOPQRSTUVWXYZ["
    \o "\\" \o "]^_"
AsciiHigh == "abcdefghijklmnopqrstuvwxyz{|}~"

\* ord(c); a character outside ASCII sorts after every ASCII character
Ord(c) ==
    LET at(k, h) == IF k # 0 THEN k + 31 ELSE IF h # 0 THEN h + 96 ELSE 169
    IN  at(Find(AsciiLow, c), Find(AsciiHigh, c))

RECURSIVE StrLess(_, _)
\* a < b on Python str: lexicographic by code point
StrLess(a, b) ==
    IF b = "" THEN FALSE
    ELSE IF a = "" THEN TRUE
    ELSE IF Ch(a, 1) = Ch(b, 1) THEN StrLess(From(a, 2), From(b, 2))
    ELSE Ord(Ch(a, 1)) < Ord(Ch(b, 1))

RECURSIVE PyMin(_)
\* min() of a non-empty list of str: the first smallest item
PyMin(xs) ==
    LET least(m, x) == IF StrLess(m, x) THEN m ELSE x
    IN  IF Len(xs) = 1 THEN xs[1] ELSE least(PyMin(Tail(xs)), xs[1])

(***************************************************************************)
(* urllib.parse, as far as the crawler uses it.                            *)
(***************************************************************************)
SchemeChars == LowerAlpha \o UpperAlpha \o DigitChars \o "+-."

\* index of the ":" that ends the scheme of url, 0 when url has no scheme
SchemeEnd(url) ==
    LET at(k) == IF /\ k > 1
                    /\ ~IsDigit(Ch(url, 1))
                    /\ \A i \in 1..(k - 1) : Contains(SchemeChars, Ch(url, i))
                 THEN k ELSE 0
    IN  at(Find(url, ":"))

\* urlparse(url).scheme
UrlScheme(url) == Lower(Upto(url, SchemeEnd(url) - 1))

\* index of the first character of s, from position i on, that is one of
\* the characters of stops; Len(s) + 1 when there is none
FirstOf(s, stops, i) ==
    LeastOr({j \in i..Len(s) : Contains(stops, Ch(s, j))}, Len(s) + 1)

\* what follows "scheme:"
UrlRest(url) == From(url, SchemeEnd(url) + 1)

\* urlparse(url).netloc
UrlNetloc(url) ==
    LET of(rest) == IF StartsWith(rest, "//")
                    THEN SubSeq(rest, 3, FirstOf(rest, "/?#", 3) - 1)
                    ELSE ""
    IN  of(UrlRest(url))

\* urlparse(url).path
UrlPath(url) ==
    LET cut(rest, from) == IF from > Len(rest) THEN ""
                           ELSE SubSeq(rest, from, FirstOf(rest, "?#", from) - 1)
        of(rest) == cut(rest, IF StartsWith(rest, "//")
                              THEN FirstOf(rest, "/?#", 3) ELSE 1)
    IN  of(UrlRest(url))

\* urljoin(base, href) with base the http(s) URL of a page: an href with
\* a scheme is returned as it is, "//host/.." takes the scheme of base, "/.."
\* the scheme and host, anything else the directory of base as well
urljoin(base, href) ==
    LET join(scheme, netloc, bpath) ==
            IF StartsWith(href, "//") THEN scheme \o ":" \o href
            ELSE IF StartsWith(href, "/") THEN scheme \o "://" \o netloc \o href
            ELSE scheme \o "://" \o netloc \o Upto(bpath, RFind(bpath, "/")) \o href
    IN  IF href = "" THEN base
        ELSE IF SchemeEnd(href) # 0 THEN href
        ELSE join(UrlScheme(base), UrlNetloc(base), UrlPath(base))

\* os.path.basename
basename(path) == From(path, RFind(path, "/") + 1)

\* os.path.splitext(path)[1]: from the last dot of the last component, unless
\* that component has no dot after its leading dots
splitext_ext(path) ==
    LET lead(b) == CHOOSE n \in 0..Len(b) :
                      /\ \A i \in 1..n : Ch(b, i) = "."
                      /\ (n = Len(b) \/ Ch(b, n + 1) # ".")
        ext(b, k) == IF k > lead(b) THEN From(b, k) ELSE ""
        of(b) == ext(b, RFind(b, "."))
    IN  of(basename(path))

(***************************************************************************)
(* EnhancedCrawler.get_domain                                              *)
(***************************************************************************)
\* line 60: the host without "www." and without the port
netloc_of(url) == Split(Replace(UrlNetloc(url), "www.", ""), ":")[1]

\* lines 61-64 with n = 2: the last n labels of netloc, netloc itself when
\* it has fewer
last_labels(netloc, n) ==
    LET of(parts) == IF Len(parts) >= n
                     THEN Join(SubSeq(parts, Len(parts) - n + 1, Len(parts)), ".")
                     ELSE netloc
    IN  of(Split(netloc, "."))

\* get_domain keeping the last three labels of the host
get_domain_three_labels(url) == last_labels(netloc_of(url), 3)

get_domain(url) == last_labels(netloc_of(url), 2)

(***************************************************************************)
(* Document content.  A fetched body is a record                           *)
(*   head      the leading bytes, as text                                  *)
(*   size      len(content)                                                *)
(*   valid     PyMuPDF (fitz.open) can open it                             *)
(*   encrypted doc.is_encrypted                                            *)
(*   text      the text of its first three pages (page.get_text())         *)
(*   creationDate, modDate  doc.metadata, "" when absent                   *)
(***************************************************************************)
SUPPORTED_TYPES == {"application/pdf", "text/xml", "application/xml", "text/html"}

\* os.path.join(os.getcwd(), 'data', 'raw'), with the working directory /cwd
OUTPUT_DIR == "/cwd/data/raw"

\* datetime.now().strftime('%Y')
CurrentYear == "2026"

\* the pattern (19|20)\d{2} matches s at position i
IsYearAt(s, i) ==
    /\ i >= 1
    /\ i + 3 <= Len(s)
    /\ SubSeq(s, i, i + 1) \in {"19", "20"}
    /\ IsDigit(Ch(s, i + 2))
    /\ IsDigit(Ch(s, i + 3))

\* \b matches between the characters i-1 and i of s
WordBoundary(s, i) ==
    (i - 1 >= 1 /\ i - 1 <= Len(s) /\ IsWordChar(Ch(s, i - 1)))
    # (i >= 1 /\ i <= Len(s) /\ IsWordChar(Ch(s, i)))

\* the four characters of s at the least position of hits, None when hits
\* is empty: group(0) of the first match of a year pattern
YearAt(s, hits) ==
    LET at(i) == SubSeq(s, i, i + 3) IN IF hits = {} THEN None ELSE at(Least(hits))

\* re.search(r'\b(19|20)\d{2}\b', s).group(0), None without a match
BareYear(s) ==
    YearAt(s, {i \in 1..Len(s) :
                  WordBoundary(s, i) /\ IsYearAt(s, i) /\ WordBoundary(s, i + 4)})

\* re.search(r'(19|20)\d{2}', s).group(0), None without a match
AnyYear(s) == YearAt(s, {i \in 1..Len(s) : IsYearAt(s, i)})

VersionWords == <<"v", "rev", "version", "ver">>

\* the alternative of (?:v|rev|version|ver) that \d{4} follows at position i
\* of s (case-insensitively), 0 when there is none; \d{4} is tried before
\* the dated alternative and matches whenever that one would
VersionWordAt(s, i) ==
    LET after(w) == i + Len(VersionWords[w])
    IN  LeastOr({w \in 1..Len(VersionWords) :
                    /\ after(w) + 3 <= Len(s)
                    /\ Lower(SubSeq(s, i, after(w) - 1)) = VersionWords[w]
                    /\ \A d \in 0..3 : IsDigit(Ch(s, after(w) + d))}, 0)

\* the year of the first version token of s: the match of
\* (?:v|rev|version|ver)(?:\d{4}|(?:19|20)\d{2}-\d{2}-\d{2}), searched for
\* (19|20)\d{2}; None when no token matches or the token holds no year
VersionYear(s) ==
    LET token(i, w) == AnyYear(SubSeq(s, i, i + Len(VersionWords[w]) + 3))
        at(i) == token(i, VersionWordAt(s, i))
        first(hits) == IF hits = {} THEN None ELSE at(Least(hits))
    IN  first({i \in 1..Len(s) : VersionWordAt(s, i) # 0})

\* extract_year_from_url without the search for a /YYYY/ segment
extract_year_from_url_version_only(url) == VersionYear(UrlPath(url))

extract_year_from_url(url) ==
    LET segment(path, hits) ==
            IF hits # {} THEN StripSlash(SubSeq(path, Least(hits), Least(hits) + 5))
            ELSE VersionYear(path)
        of(path) == segment(path, {i \in 1..Len(path) :
                                      /\ Ch(path, i) = "/"
                                      /\ IsYearAt(path, i + 1)
                                      /\ i + 5 <= Len(path)
                                      /\ Ch(path, i + 5) = "/"})
    IN  of(UrlPath(url))

\* a when the pattern tried first matched, b otherwise
OrElse(a, b) == IF a # None THEN a ELSE b

extract_year_from_filename(filename) ==
    IF filename = "" THEN None
    ELSE OrElse(BareYear(filename), VersionYear(filename))

\* (?:19|20)\d{2}-(?:0[1-9]|1[0-2])-(?:0[1-9]|[12][0-9]|3[01]) at position i
IsIsoDateAt(s, i) ==
    /\ IsYearAt(s, i)
    /\ i + 9 <= Len(s)
    /\ Ch(s, i + 4) = "-"
    /\ Ch(s, i + 7) = "-"
    /\ LET m == SubSeq(s, i + 5, i + 6)
           d == SubSeq(s, i + 8, i + 9)
       IN  /\ \/ Ch(m, 1) = "0" /\ Contains("123456789", Ch(m, 2))
              \/ m \in {"10", "11", "12"}
           /\ \/ Ch(d, 1) = "0" /\ Contains("123456789", Ch(d, 2))
              \/ Contains("12", Ch(d, 1)) /\ IsDigit(Ch(d, 2))
              \/ d \in {"30", "31"}

\* fitz.open fails on a body it cannot open, and the pages of an encrypted
\* document cannot be read: both raise, and the except clause returns None
extract_year_from_content(content) ==
    LET date(text, hits) ==
            IF hits = {} THEN None
            ELSE Split(SubSeq(text, Least(hits), Least(hits) + 9), "-")[1]
        iso(text) == date(text, {i \in 1..Len(text) : IsIsoDateAt(text, i)})
    IN  IF ~content.valid \/ content.encrypted THEN None
        ELSE OrElse(BareYear(content.text), iso(content.text))

\* re.search(r'D:?(19|20)\d{2}', date) matches
MetaDateMatches(date) ==
    \E i \in 1..Len(date) :
        /\ Ch(date, i) = "D"
        /\ \/ IsYearAt(date, i + 1)
           \/ MatchAt(date, ":", i + 1) /\ IsYearAt(date, i + 2)

\* The pattern has one group, so year_match.group(2) raises IndexError on
\* the first key that matches; the except clause logs it and returns None.
extract_year_from_pdf(content) ==
    IF ~content.valid THEN None
    ELSE IF content.encrypted THEN None
    ELSE IF \E date \in {content.creationDate, content.modDate} :
                date # "" /\ MetaDateMatches(date)
         THEN None
    ELSE None

check_copyright(text) ==
    \E keyword \in {"copyright", "©", "all rights reserved"} :
        Contains(Lower(text), keyword)

\* detect_content_type answering application/pdf or unknown only
detect_content_type_pdf_only(content) ==
    IF StartsWith(content, "%PDF-") THEN "application/pdf" ELSE "unknown"

\* lines 228-235, content being the bytes as text
detect_content_type(content) ==
    IF StartsWith(content, "%PDF-") THEN "application/pdf"
    ELSE IF StartsWith(content, "<?xml") \/ StartsWith(content, "<xml")
    THEN "application/xml"
    ELSE IF StartsWith(content, "<html") \/ Contains(Upto(content, 100), "<HTML")
    THEN "text/html"
    ELSE "unknown"

should_download(url, content_type, content) ==
    IF content_type = "application/pdf"
    THEN IF ~content.valid THEN FALSE
         ELSE IF content.encrypted THEN FALSE
         ELSE IF check_copyright(content.text) THEN FALSE
         ELSE content_type \in SUPPORTED_TYPES
    ELSE content_type \in SUPPORTED_TYPES

(***************************************************************************)
(* EnhancedCrawler.save_file, in two pure parts and the file system.       *)
(***************************************************************************)
\* hashlib.md5(url.encode()).hexdigest() of the modelled URLs whose path has
\* no last component
md5_hexdigest(url) ==
    CASE url = "https://example.com/?f=a.pdf" -> "821c04b0b09dbdef5da863d4213f7552"

\* re.search(r'\.\w+$', filename)
HasExtension(filename) ==
    \E i \in 1..(Len(filename) - 1) :
        /\ Ch(filename, i) = "."
        /\ \A j \in (i + 1)..Len(filename) : IsWordChar(Ch(filename, j))

\* save_file naming the file by the whole path of the URL
derive_filename_whole_path(url, content_type) == From(UrlPath(url), 2)

\* lines 172-183: the name of the artifact
derive_filename(url, content_type) ==
    LET extended(path, name) ==
            IF HasExtension(name) THEN name
            ELSE IF Contains(content_type, "pdf") THEN name \o ".pdf"
            ELSE IF Contains(content_type, "xml") THEN name \o ".xml"
            ELSE IF splitext_ext(path) # "" THEN name \o splitext_ext(path)
            ELSE name \o ".bin"
        named(path, base) ==
            extended(path, IF base = "" THEN md5_hexdigest(url) ELSE base)
        of(path) == named(path, basename(path))
    IN  of(UrlPath(url))

\* lines 193-197: the non-None candidates, in the order of the list
year_candidates(content, url, filename) ==
    SelectSeq(<<extract_year_from_pdf(content),
                extract_year_from_content(content),
                extract_year_from_url(url),
                extract_year_from_filename(filename)>>,
              LAMBDA y : y # None)

\* resolve_year taking the first candidate instead of the smallest
resolve_year_first(candidates) ==
    IF Len(candidates) > 0 THEN candidates[1] ELSE CurrentYear

\* line 198
resolve_year(candidates) ==
    IF Len(candidates) > 0 THEN PyMin(candidates) ELSE CurrentYear

\* os.path.join of two components
path_join(a, b) ==
    IF StartsWith(b, "/") THEN b
    ELSE IF a = "" \/ EndsWith(a, "/") THEN a \o b
    ELSE a \o "/" \o b

\* the size floor excluding 50 itself
too_small_inclusive(file_size) == file_size <= 50

\* line 188: the size floor
too_small(file_size) == file_size < 50

(***************************************************************************)
(* The environment: the seed file, the pages and the responses of the      *)
(* servers.                                                                *)
(***************************************************************************)
\* f.readlines() of urls_to_crawl.txt: a page, a document, a blank line and
\* the page again
SeedLines ==
    <<"https://www.example.co.uk/y\n",
      "https://example.com/2022/doc.pdf\n",
      "\n",
      "https://www.example.co.uk/y\n">>

SeedPage == "https://www.example.co.uk/y"
SeedDoc  == "https://example.com/2022/doc.pdf"
Page2    == "https://docs.example.co.uk/x"
Doc3     == "https://example.com/2019/std-2023.pdf"
ExtDoc   == "https://othercdn.net/spec.pdf"
LoopPage == "https://othercdn.net/view.pdf?id=1"
\* a document no page of the environment links to, for runs seeded with it
TwinDoc  == "https://example.com/archive/2022/doc.pdf"

\* The markup of a page: the href of each <a href>, in document order, and
\* the src of each iframe/object/embed/source element.
EmptyPage == [anchors |-> <<>>, embeds |-> <<>>]

Page(url) ==
    CASE url = SeedPage ->
           [anchors |-> <<"https://docs.example.co.uk/x",
                          "https://example.com/2019/std-2023.pdf",
                          "https://cdn.other.org/a",
                          "mailto:info@example.co.uk",
                          "/y",
                          "//docs.example.co.uk/x">>,
            embeds  |-> <<"https://othercdn.net/spec.pdf">>]
      [] url = Page2 ->
           [anchors |-> <<"https://www.example.co.uk/y",
                          "https://example.com/2019/std-2023.pdf",
                          "https://othercdn.net/spec.pdf">>,
            embeds  |-> <<"https://othercdn.net/view.pdf?id=1">>]
      [] url = LoopPage ->
           [anchors |-> <<"view.pdf?id=1">>, embeds |-> <<>>]
      [] OTHER -> EmptyPage

\* The bodies a server may answer a document request with.
Content ==
    [PdfPlain |-> [head |-> "%PDF-", size |-> 1200, valid |-> TRUE,
                   encrypted |-> FALSE, text |-> "Test methods",
                   creationDate |-> "D:20200101120000", modDate |-> ""],
     PdfOld   |-> [head |-> "%PDF-", size |-> 1200, valid |-> TRUE,
                   encrypted |-> FALSE, text |-> "First edition 2021-06",
                   creationDate |-> "", modDate |-> ""],
     PdfCopy  |-> [head |-> "%PDF-", size |-> 900, valid |-> TRUE,
                   encrypted |-> FALSE, text |-> "Copyright 2024 ISO",
                   creationDate |-> "", modDate |-> ""],
     PdfEnc   |-> [head |-> "%PDF-", size |-> 900, valid |-> TRUE,
                   encrypted |-> TRUE, text |-> "",
                   creationDate |-> "", modDate |-> ""],
     Xml49    |-> [head |-> "<?xml", size |-> 49, valid |-> FALSE,
                   encrypted |-> FALSE, text |-> "",
                   creationDate |-> "", modDate |-> ""],
     Xml50    |-> [head |-> "<?xml", size |-> 50, valid |-> FALSE,
                   encrypted |-> FALSE, text |-> "",
                   creationDate |-> "", modDate |-> ""]]

ContentNames == DOMAIN Content

\* response.headers.get('Content-Type', '')
ContentTypes == {"application/pdf", "text/xml", "application/octet-stream"}

\* where an OSError may strike in save_file: nowhere, at f.write (line 186)
\* or at os.rename (line 202)
Faults == {"none", "write", "rename"}

Whitespace == " \t\n\r"

RECURSIVE Strip(_)
\* str.strip()
Strip(s) ==
    IF s = "" THEN ""
    ELSE IF Contains(Whitespace, Ch(s, 1)) THEN Strip(From(s, 2))
    ELSE IF Contains(Whitespace, Ch(s, Len(s))) THEN Strip(Upto(s, Len(s) - 1))
    ELSE s

(***************************************************************************)
(* Pure parts of run(), process_url and save_file.                         *)
(***************************************************************************)
\* the seed's end of the queue (line 415)
seed_at_head(url) == EndsWith(Lower(url), ".pdf")

\* line 333
is_direct_document(url) ==
    LET ends(low) == EndsWith(low, ".pdf") \/ EndsWith(low, ".xml")
    IN  ends(Lower(url))

\* line 279, for every <a href> of the page
resolved_anchors(page, base_url) ==
    [i \in 1..Len(page.anchors) |-> urljoin(base_url, page.anchors[i])]

\* lines 280-286: the scheme and host tests of extract_links
link_shape_ok(link) ==
    LET ok(scheme) == /\ StartsWith(scheme, "http")
                      /\ UrlNetloc(link) # ""
                      /\ scheme \notin {"mailto", "javascript"}
    IN  ok(UrlScheme(link))

\* line 308 and line 314
looks_like_document(ref) ==
    LET has(low) == Contains(low, ".pdf") \/ Contains(low, ".xml")
    IN  has(Lower(ref))

\* check_for_embedded_documents, lines 302-315: embedded_links
embedded_links(page, url) ==
    LET joined(refs) == [i \in 1..Len(refs) |-> urljoin(url, refs[i])]
    IN  joined(SelectSeq(page.embeds, LAMBDA src : src # "" /\ looks_like_document(src))
               \o SelectSeq(page.anchors, looks_like_document))

\* save_file, lines 170-201: the paths and the year it computes
save_plan(content, domain, filename, candidates) ==
    LET domain_dir == path_join(OUTPUT_DIR, domain)
        year       == resolve_year(candidates)
        year_dir   == path_join(domain_dir, year)
    IN  [domain_dir |-> domain_dir,
         candidates |-> candidates,
         temp_path  |-> path_join(domain_dir, "temp_download"),
         small      |-> too_small(content.size),
         year       |-> year,
         year_dir   |-> year_dir,
         final_path |-> path_join(year_dir, filename)]

(***************************************************************************)
(* The pure functions above, tabulated over the URLs, pages and responses  *)
(* of the environment: TLC evaluates each table once.                      *)
(***************************************************************************)
\* urls of line 406, before the shuffle
SeedUrls == [i \in 1..Len(SeedLines) |-> Strip(SeedLines[i])]

StaleUrl == "https://old.example.org/stale"

RefsOf(u) ==
    LET joined(refs) == {urljoin(u, refs[i]) : i \in 1..Len(refs)}
    IN  joined(Page(u).anchors \o Page(u).embeds)

KnownUrls ==
    LET closed(base) == base \cup UNION {RefsOf(u) : u \in base}
    IN  closed({SeedUrls[i] : i \in 1..Len(SeedUrls)}
               \cup {SeedPage, SeedDoc, Page2, Doc3, ExtDoc, LoopPage, StaleUrl,
                     TwinDoc})

UrlFacts ==
    [u \in KnownUrls |->
        [domain   |-> get_domain(u),
         direct   |-> is_direct_document(u),
         head     |-> seed_at_head(u),
         shape_ok |-> link_shape_ok(u),
         stripped |-> Strip(u),
         links    |-> resolved_anchors(Page(u), u),
         embedded |-> embedded_links(Page(u), u)]]

DocUrls == {u \in KnownUrls : UrlFacts[u].direct}

ContentFacts ==
    [c \in ContentNames |->
        [copyright    |-> check_copyright(Content[c].text),
         content_year |-> extract_year_from_content(Content[c])]]

\* filename of lines 172-183, per document URL and declared type
Filenames ==
    [u \in DocUrls, content_type \in ContentTypes |->
        derive_filename(u, content_type)]

\* year_candidates of lines 193-197, per document URL, declared type and body
Candidates ==
    [u \in DocUrls, content_type \in ContentTypes, c \in ContentNames |->
        year_candidates(Content[c], u, Filenames[u, content_type])]

DownloadFacts ==
    [u \in DocUrls, content_type \in ContentTypes, c \in ContentNames |->
        [accepted |-> should_download(u, content_type, Content[c]),
         plan     |-> save_plan(Content[c], UrlFacts[u].domain,
                                Filenames[u, content_type],
                                Candidates[u, content_type, c])]]

(***************************************************************************)
(* The state.                                                              *)
(***************************************************************************)
VARIABLES
    pc,                \* where run() is: init, reset, seeding, crawling,
                       \* processing, empty_wait, stopped, failed
    playwright,        \* self.playwright: none, running, stopped
    browser,           \* self.browser: none, running, closed
    allowed_domains,   \* self.allowed_domains
    url_queue,         \* the Redis list url_queue, head first
    seen_urls,         \* the Redis set seen_urls
    downloaded_files,  \* the Redis list downloaded_files, head first
    files,             \* the artifacts on disk: [path, url]
    dirs,              \* the directories made under OUTPUT_DIR
    temps,             \* the temp_download files on disk
    stack,             \* the active process_url calls, outermost first
    pushCount,         \* history: how often each URL was pushed on url_queue
    popCount,          \* history: how often each URL was popped from it
    fetched,           \* history of this iteration of the crawl loop: the
                       \* network fetches made by process_url
    last,              \* the same: the last answered request of
                       \* download_pdf_direct
    done,              \* the same: the process_url calls that returned
    probe,             \* the argument a function of the class is called
                       \* with on its own, outside any run
    answer,            \* what that call returned, None before it
    producers          \* the enqueue loops that share Redis with run(),
                       \* and where each one is

vars ==
    <<pc, playwright, browser, allowed_domains, url_queue, seen_urls,
      downloaded_files, files, dirs, temps, stack, pushCount, popCount,
      fetched, last, done, probe, answer, producers>>

redis  == <<url_queue, seen_urls, downloaded_files>>
disk   == <<files, dirs, temps>>
render == <<playwright, browser>>
apart  == <<probe, answer, producers>>

\* datetime.now().isoformat(): the model reads one instant
Now == "2026-11-04T12:00:00"

NoDownload ==
    [url |-> None, content_type |-> None, content |-> None, fault |-> None,
     accepted |-> FALSE, path |-> None, year |-> None, newdirs |-> {}]

\* What an earlier run may have left in Redis and on disk.
StaleLog ==
    [timestamp |-> "2025-01-01T00:00:00", url |-> "https://example.com/2020/old.pdf",
     domain |-> "example.com", year |-> "2020",
     file_path |-> "/cwd/data/raw/example.com/2020/old.pdf"]

\* no function is called on its own and no other producer runs
Alone ==
    /\ probe = None
    /\ answer = None
    /\ producers = <<>>

Init ==
    /\ pc = "init"
    /\ playwright = "none"
    /\ browser = "none"
    /\ allowed_domains = {}
    /\ \E stale \in BOOLEAN :
          /\ url_queue = IF stale THEN <<StaleUrl>> ELSE <<>>
          /\ seen_urls = IF stale THEN {StaleUrl, SeedPage} ELSE {}
          /\ downloaded_files = IF stale THEN <<StaleLog>> ELSE <<>>
    /\ files = IF downloaded_files = <<>> THEN {}
               ELSE {[path |-> StaleLog.file_path, url |-> StaleLog.url]}
    /\ dirs = IF downloaded_files = <<>> THEN {}
              ELSE {"/cwd/data/raw/example.com", "/cwd/data/raw/example.com/2020"}
    /\ temps = {}
    /\ stack = <<>>
    /\ pushCount = <<>>
    /\ popCount = <<>>
    /\ fetched = {}
    /\ last = NoDownload
    /\ done = {}
    /\ Alone

\* one more occurrence of u in the counter f
Bump(f, u) ==
    IF u \in DOMAIN f THEN [f EXCEPT ![u] = @ + 1] ELSE f @@ (u :> 1)

RECURSIVE BumpAll(_, _)
BumpAll(f, us) ==
    IF us = <<>> THEN f ELSE BumpAll(Bump(f, Head(us)), Tail(us))

(***************************************************************************)
(* run(): start of the browser, reset, seeding (lines 399-421).            *)
(***************************************************************************)
\* await self.init_browser() succeeds
InitBrowser ==
    /\ pc = "init"
    /\ playwright' = "running"
    /\ browser' = "running"
    /\ pc' = "reset"
    /\ UNCHANGED <<apart, allowed_domains, redis, disk, stack, pushCount,
                   popCount, fetched, last, done>>

\* init_browser raises, before the driver started or at chromium.launch: the
\* call is outside the try statement, so run() ends without cleanup()
InitBrowserFails ==
    /\ pc = "init"
    /\ \E started \in BOOLEAN :
          playwright' = IF started THEN "running" ELSE "none"
    /\ pc' = "failed"
    /\ UNCHANGED <<apart, browser, allowed_domains, redis, disk, stack,
                   pushCount, popCount, fetched, last, done>>

\* run() going on to the seeding without the two deletes
Reset_without_delete ==
    /\ pc = "reset"
    /\ pc' = "seeding"
    /\ UNCHANGED <<apart, render, allowed_domains, redis, disk, stack,
                   pushCount, popCount, fetched, last, done>>

\* lines 403-404
Reset ==
    /\ pc = "reset"
    /\ url_queue' = <<>>
    /\ seen_urls' = {}
    /\ pc' = "seeding"
    /\ UNCHANGED <<apart, render, allowed_domains, downloaded_files, disk,
                   stack, pushCount, popCount, fetched, last, done>>

\* cleanup(), lines 436-440
cleanup ==
    /\ browser' = IF browser = "running" THEN "closed" ELSE browser
    /\ playwright' = IF playwright = "running" THEN "stopped" ELSE playwright

\* the orders random.shuffle may leave n lines in
Shuffles(n) ==
    {p \in [1..n -> 1..n] : \A i, j \in 1..n : p[i] = p[j] => i = j}

RECURSIVE seed_urls(_, _, _)
\* lines 412-420: the seeding loop over urls, from the queue q and the set
\* seen; the result holds the queue, the set and the URLs pushed, in order
seed_urls(urls, q, seen) ==
    IF urls = <<>> THEN [queue |-> q, seen |-> seen, pushed |-> <<>>]
    ELSE LET url == Head(urls)
         IN  IF url = "" \/ url \in seen THEN seed_urls(Tail(urls), q, seen)
             ELSE LET rest == seed_urls(Tail(urls),
                                        IF UrlFacts[url].head THEN <<url>> \o q
                                        ELSE Append(q, url),
                                        seen \cup {url})
                  IN  [rest EXCEPT !.pushed = <<url>> \o @]

\* lines 405-421
Seed ==
    /\ pc = "seeding"
    /\ \E p \in Shuffles(Len(SeedUrls)) :
          LET urls == [i \in 1..Len(SeedUrls) |-> SeedUrls[p[i]]]
              r    == seed_urls(urls, url_queue, seen_urls)
          IN  /\ allowed_domains' =
                    {UrlFacts[urls[i]].domain :
                        i \in {j \in 1..Len(urls) : urls[j] # ""}}
              /\ url_queue' = r.queue
              /\ seen_urls' = r.seen
              /\ pushCount' = BumpAll(pushCount, r.pushed)
    /\ pc' = "crawling"
    /\ UNCHANGED <<apart, render, downloaded_files, disk, stack, popCount,
                   fetched, last, done>>

\* open('urls_to_crawl.txt') raises: the finally clause runs cleanup()
SeedFileMissing ==
    /\ pc = "seeding"
    /\ cleanup
    /\ pc' = "failed"
    /\ UNCHANGED <<apart, allowed_domains, redis, disk, stack, pushCount,
                   popCount, fetched, last, done>>

(***************************************************************************)
(* The crawl loop (lines 422-434).                                         *)
(***************************************************************************)
\* the frame of a process_url call that has not fetched yet
NewFrame(url) ==
    [url |-> url, domain |-> UrlFacts[url].domain, at |-> "start", via |-> "none",
     todo |-> <<>>, robots |-> "unchecked"]

\* lines 423-430: lpop returned a URL, process_url is called with it
Dequeue ==
    /\ pc = "crawling"
    /\ url_queue # <<>>
    /\ Head(url_queue) # ""
    /\ url_queue' = Tail(url_queue)
    /\ popCount' = Bump(popCount, Head(url_queue))
    /\ stack' = <<NewFrame(UrlFacts[Head(url_queue)].stripped)>>
    /\ pc' = "processing"
    /\ fetched' = {}
    /\ last' = NoDownload
    /\ done' = {}
    /\ UNCHANGED <<apart, render, allowed_domains, seen_urls,
                   downloaded_files, disk, pushCount>>

\* the loop sleeping whatever lpop returned
EmptyWait_whatever ==
    /\ pc = "crawling"
    /\ url_queue' = IF url_queue = <<>> THEN url_queue ELSE Tail(url_queue)
    /\ pc' = "empty_wait"
    /\ UNCHANGED <<apart, render, allowed_domains, seen_urls,
                   downloaded_files, disk, stack, pushCount, popCount,
                   fetched, last, done>>

\* lines 423-427: lpop returned nothing, or an empty string, which is popped
\* and is as false; time.sleep(10) starts
EmptyWait ==
    /\ pc = "crawling"
    /\ IF url_queue = <<>> THEN TRUE ELSE Head(url_queue) = ""
    /\ url_queue' = IF url_queue = <<>> THEN url_queue ELSE Tail(url_queue)
    /\ pc' = "empty_wait"
    /\ UNCHANGED <<apart, render, allowed_domains, seen_urls,
                   downloaded_files, disk, stack, pushCount, popCount,
                   fetched, last, done>>

\* the sleep is over: continue
Wake ==
    /\ pc = "empty_wait"
    /\ pc' = "crawling"
    /\ UNCHANGED <<apart, render, allowed_domains, redis, disk, stack,
                   pushCount, popCount, fetched, last, done>>

\* KeyboardInterrupt or cancellation of the task: the finally clause (line
\* 433) runs cleanup(), whatever run() was doing
Cancel ==
    /\ pc \in {"reset", "seeding", "crawling", "processing", "empty_wait"}
    /\ cleanup
    /\ stack' = <<>>
    /\ pc' = "stopped"
    /\ UNCHANGED <<apart, allowed_domains, redis, disk, pushCount, popCount,
                   fetched, last, done>>

(***************************************************************************)
(* process_url (lines 324-363) and what it calls.                          *)
(***************************************************************************)
Top == stack[Len(stack)]

\* process_url returns result: its frame is popped, and the crawl loop goes
\* on when that was the outermost call
Return(result, via) ==
    /\ stack' = SubSeq(stack, 1, Len(stack) - 1)
    /\ pc' = IF Len(stack) = 1 THEN "crawling" ELSE pc
    /\ done' = done \cup {[url |-> Top.url, via |-> via, result |-> result]}

\* the network requests, one per tier, of the call on top of the stack
Fetch(tiers) ==
    fetched' = fetched \cup
        {[url |-> Top.url, tier |-> t, robots |-> Top.robots] : t \in tiers}

\* extract_links without the test of the domain
link_allowed_any_domain(link, allowed) == UrlFacts[link].shape_ok

\* lines 280-291: extract_links keeps the link
link_allowed(link, allowed) ==
    /\ UrlFacts[link].shape_ok
    /\ UrlFacts[link].domain \in allowed

\* extract_links (lines 274-294), on the resolved <a href> of the page
extract_links(links, allowed) ==
    SelectSeq(links, LAMBDA link : link_allowed(link, allowed))

RECURSIVE enqueue_links_unchecked(_, _, _)
\* the loop over all_links without the sismember test
enqueue_links_unchecked(links, q, seen) ==
    IF links = <<>> THEN [queue |-> q, seen |-> seen, pushed |-> <<>>]
    ELSE LET link == Head(links)
             rest == enqueue_links_unchecked(Tail(links), Append(q, link),
                                             seen \cup {link})
         IN  [rest EXCEPT !.pushed = <<link>> \o @]

RECURSIVE enqueue_links_without_sadd(_, _, _)
\* the loop over all_links without the sadd of line 355
enqueue_links_without_sadd(links, q, seen) ==
    IF links = <<>> THEN [queue |-> q, seen |-> seen, pushed |-> <<>>]
    ELSE LET link == Head(links)
         IN  IF link \in seen
             THEN enqueue_links_without_sadd(Tail(links), q, seen)
             ELSE LET rest == enqueue_links_without_sadd(Tail(links),
                                                         Append(q, link), seen)
                  IN  [rest EXCEPT !.pushed = <<link>> \o @]

RECURSIVE enqueue_links(_, _, _)
\* lines 352-356: the loop over all_links
enqueue_links(links, q, seen) ==
    IF links = <<>> THEN [queue |-> q, seen |-> seen, pushed |-> <<>>]
    ELSE LET link == Head(links)
         IN  IF link \in seen THEN enqueue_links(Tail(links), q, seen)
             ELSE LET rest == enqueue_links(Tail(links), Append(q, link),
                                            seen \cup {link})
                  IN  [rest EXCEPT !.pushed = <<link>> \o @]

\* lines 351-356, on the parsed markup of the page
EnqueueLinksOf(url) ==
    LET r == enqueue_links(extract_links(UrlFacts[url].links, allowed_domains),
                           url_queue, seen_urls)
    IN  /\ url_queue' = r.queue
        /\ seen_urls' = r.seen
        /\ pushCount' = BumpAll(pushCount, r.pushed)

\* save_file (lines 168-207) on the disk as it is: the returned pair and the
\* disk it leaves.  An OSError reaches the except clause of line 205.
save_file(plan, fault) ==
    IF fault = "write"
    THEN [path |-> None, year |-> None, files |-> files,
          dirs |-> dirs \cup {plan.domain_dir},
          temps |-> temps \cup {plan.temp_path}]
    ELSE IF plan.small
    THEN [path |-> None, year |-> None, files |-> files,
          dirs |-> dirs \cup {plan.domain_dir},
          temps |-> temps \ {plan.temp_path}]
    ELSE IF fault = "rename"
    THEN [path |-> None, year |-> None, files |-> files,
          dirs |-> dirs \cup {plan.domain_dir, plan.year_dir},
          temps |-> temps \cup {plan.temp_path}]
    ELSE [path |-> plan.final_path, year |-> plan.year,
          files |-> {f \in files : f.path # plan.final_path}
                    \cup {[path |-> plan.final_path, url |-> Top.url]},
          dirs |-> dirs \cup {plan.domain_dir, plan.year_dir},
          temps |-> temps \ {plan.temp_path}]

\* log_download (lines 157-166): the entry lpush puts at the head
log_entry(url, domain, year, file_path) ==
    [timestamp |-> Now, url |-> url, domain |-> domain, year |-> year,
     file_path |-> file_path]

\* download_pdf_direct, lines 371-376, on a response with status 200: what
\* it returns, logs and leaves on disk
download_outcome(url, domain, accepted, plan, fault) ==
    LET saved == save_file(plan, fault)
    IN  IF accepted
        THEN [result |-> TRUE, path |-> saved.path, year |-> saved.year,
              files |-> saved.files, dirs |-> saved.dirs, temps |-> saved.temps,
              log |-> <<log_entry(url, domain, saved.year, saved.path)>>]
        ELSE [result |-> FALSE, path |-> None, year |-> None,
              files |-> files, dirs |-> dirs, temps |-> temps, log |-> <<>>]

\* lines 333-335, 365-376: the direct tier, the server answers 200
DownloadDirect ==
    /\ pc = "processing"
    /\ Top.at = "start"
    /\ UrlFacts[Top.url].direct
    /\ \E content_type \in ContentTypes, c \in ContentNames, fault \in Faults :
       \E facts \in {DownloadFacts[Top.url, content_type, c]} :
       \E out \in {download_outcome(Top.url, Top.domain, facts.accepted,
                                     facts.plan, fault)} :
          /\ fault # "none" => facts.accepted
          /\ files' = out.files
          /\ dirs' = out.dirs
          /\ temps' = out.temps
          /\ downloaded_files' = out.log \o downloaded_files
          /\ last' = [url |-> Top.url, content_type |-> content_type,
                      content |-> c, fault |-> fault,
                      accepted |-> facts.accepted,
                      path |-> out.path, year |-> out.year,
                      newdirs |-> out.dirs \ dirs]
          /\ Return(out.result, "direct")
    /\ Fetch({"direct"})
    /\ UNCHANGED <<apart, render, allowed_domains, url_queue, seen_urls,
                   pushCount, popCount>>

\* the GET of line 367 raises (caught at line 361) or the status is not 200
DirectFetchFails ==
    /\ pc = "processing"
    /\ Top.at = "start"
    /\ UrlFacts[Top.url].direct
    /\ Fetch({"direct"})
    /\ Return(FALSE, "direct")
    /\ UNCHANGED <<apart, render, allowed_domains, redis, disk, pushCount,
                   popCount, last>>

\* lines 338, 348-359: the browser rendered the page; its links are queued
\* and the embedded documents come next
RenderPage ==
    /\ pc = "processing"
    /\ Top.at = "start"
    /\ ~UrlFacts[Top.url].direct
    /\ Fetch({"render"})
    /\ EnqueueLinksOf(Top.url)
    /\ stack' = [stack EXCEPT ![Len(stack)] =
                    [@ EXCEPT !.at = "embedded", !.via = "rendered",
                              !.todo = UrlFacts[Top.url].embedded]]
    /\ UNCHANGED <<apart, pc, render, allowed_domains, downloaded_files, disk,
                   popCount, last, done>>

\* lines 339-346, 351-360: rendering gave nothing, the GET of line 342
\* answered 200; the links of response.text are queued, and then
\* check_for_embedded_documents is called with html, not with the markup of
\* the response.  With html None, BeautifulSoup(None, ...) raises TypeError,
\* caught at line 361; with html '' it finds no element.
FallbackPage ==
    /\ pc = "processing"
    /\ Top.at = "start"
    /\ ~UrlFacts[Top.url].direct
    /\ Fetch({"render", "raw"})
    /\ EnqueueLinksOf(Top.url)
    /\ \E html \in {"None", "empty"} : Return(html = "empty", "fallback")
    /\ UNCHANGED <<apart, render, allowed_domains, downloaded_files, disk,
                   popCount, last>>

\* rendering gave nothing and the GET of line 342 raised or answered another
\* status than 200
PageFetchFails ==
    /\ pc = "processing"
    /\ Top.at = "start"
    /\ ~UrlFacts[Top.url].direct
    /\ Fetch({"render", "raw"})
    /\ Return(FALSE, "failed")
    /\ UNCHANGED <<apart, render, allowed_domains, redis, disk, pushCount,
                   popCount, last>>

\* lines 318-319: the next embedded link is in seen_urls
EmbeddedSkip ==
    /\ pc = "processing"
    /\ Top.at = "embedded"
    /\ Top.todo # <<>>
    /\ Head(Top.todo) \in seen_urls
    /\ stack' = [stack EXCEPT ![Len(stack)].todo = Tail(@)]
    /\ UNCHANGED <<apart, pc, render, allowed_domains, redis, disk, pushCount,
                   popCount, fetched, last, done>>

\* lines 319-320: it is not, process_url is called with it
EmbeddedCall ==
    /\ pc = "processing"
    /\ Top.at = "embedded"
    /\ Top.todo # <<>>
    /\ Head(Top.todo) \notin seen_urls
    /\ Len(stack) < MaxDepth
    /\ stack' = Append([stack EXCEPT ![Len(stack)].todo = Tail(@)],
                       NewFrame(Head(Top.todo)))
    /\ UNCHANGED <<apart, pc, render, allowed_domains, redis, disk, pushCount,
                   popCount, fetched, last, done>>

\* the same call at the deepest nesting the interpreter allows: RecursionError
\* is raised inside the new call, which then returns False, or on entering
\* it, which ends the calling process_url at line 361
EmbeddedOverflow ==
    /\ pc = "processing"
    /\ Top.at = "embedded"
    /\ Top.todo # <<>>
    /\ Head(Top.todo) \notin seen_urls
    /\ Len(stack) >= MaxDepth
    /\ \/ /\ stack' = [stack EXCEPT ![Len(stack)].todo = Tail(@)]
          /\ done' = done \cup {[url |-> Head(Top.todo), via |-> "none",
                                result |-> FALSE]}
          /\ pc' = pc
       \/ Return(FALSE, Top.via)
    /\ UNCHANGED <<apart, render, allowed_domains, redis, disk, pushCount,
                   popCount, fetched, last>>

\* the loop of line 318 is over: line 360
EmbeddedDone ==
    /\ pc = "processing"
    /\ Top.at = "embedded"
    /\ Top.todo = <<>>
    /\ Return(TRUE, Top.via)
    /\ UNCHANGED <<apart, render, allowed_domains, redis, disk, pushCount,
                   popCount, fetched, last>>

Next ==
    \/ InitBrowser
    \/ InitBrowserFails
    \/ Reset
    \/ Seed
    \/ SeedFileMissing
    \/ Dequeue
    \/ EmptyWait
    \/ Wake
    \/ Cancel
    \/ DownloadDirect
    \/ DirectFetchFails
    \/ RenderPage
    \/ FallbackPage
    \/ PageFetchFails
    \/ EmbeddedSkip
    \/ EmbeddedCall
    \/ EmbeddedOverflow
    \/ EmbeddedDone

Spec == Init /\ [][Next]_vars

\* run() when nothing cancels it: the single worker takes its next step as
\* long as it has one
LoopNext ==
    \/ InitBrowser
    \/ InitBrowserFails
    \/ Reset
    \/ Seed
    \/ SeedFileMissing
    \/ Dequeue
    \/ EmptyWait
    \/ Wake
    \/ DownloadDirect
    \/ DirectFetchFails
    \/ RenderPage
    \/ FallbackPage
    \/ PageFetchFails
    \/ EmbeddedSkip
    \/ EmbeddedCall
    \/ EmbeddedOverflow
    \/ EmbeddedDone

FairSpec == Init /\ [][LoopNext]_vars /\ WF_vars(LoopNext)


(***************************************************************************)
(* The functions of the class no run of the crawler decides the outcome    *)
(* of, called on their own: detect_content_type, which nothing calls, and  *)
(* get_domain over more hosts than the pages of the environment have.      *)
(***************************************************************************)
Pad10  == "          "
Pad100 == Pad10 \o Pad10 \o Pad10 \o Pad10 \o Pad10
          \o Pad10 \o Pad10 \o Pad10 \o Pad10 \o Pad10

\* how the bytes given to detect_content_type begin
SniffHeads ==
    {"%PDF-", "%PDF", " %PDF-", "<html", "<HTML", "<Html", "<?xml", "<xml",
     "<?XML", "junk", ""}

\* and how they go on
SniffTails == {"", "-1.7 obj", "<body><HTML>", Pad100 \o "<HTML>"}

SniffInputs == {head \o tail : head \in SniffHeads, tail \in SniffTails}

\* the hosts, ports and paths of the URLs given to get_domain
DomainHosts ==
    {"example.com", "www.example.com", "sub.example.co.uk",
     "www.sub.example.co.uk", "localhost", "www.localhost", "mywww.com",
     "a.b.c.d.org"}

DomainInputs ==
    {"https://" \o host \o port \o path :
        host \in DomainHosts, port \in {"", ":8080"}, path \in {"", "/x"}}

\* the methods class EnhancedCrawler defines (lines 48-440); it has no base
\* class and no __getattr__
Methods ==
    {"__init__", "get_domain", "can_fetch", "init_browser", "check_copyright",
     "extract_year_from_pdf", "extract_year_from_url",
     "extract_year_from_content", "extract_year_from_filename",
     "log_download", "save_file", "handle_javascript_content",
     "detect_content_type", "should_download", "is_open_access_ieee",
     "handle_iso_preview", "generate_etsi_pdf_link", "extract_links",
     "check_for_embedded_documents", "process_url", "download_pdf_direct",
     "process_api_source", "run", "cleanup"}

\* what becomes of the request for robots.txt: it is read and parsed, and
\* allows or denies the URL, or urlopen raises, or decode() raises
RobotsOutcomes == {"allow", "deny", "unreachable", "undecodable"}

\* can_fetch (lines 66-78): what the call does.  Line 68 is outside the try
\* statement; the except clause of line 77 logs and falls off the end.
can_fetch(url, robots) ==
    IF "get_robots_txt_url" \notin Methods THEN "raise AttributeError"
    ELSE IF robots \in {"unreachable", "undecodable"} THEN "return None"
    ELSE IF robots = "allow" THEN "return True"
    ELSE "return False"

Calls ==
    {[function |-> "detect_content_type", arg |-> content, declared |-> t] :
        content \in SniffInputs, t \in ContentTypes}
    \cup {[function |-> "get_domain", arg |-> url, declared |-> None] :
             url \in DomainInputs}
    \cup {[function |-> "can_fetch", arg |-> url, robots |-> r] :
             url \in {SeedPage, SeedDoc, ExtDoc}, r \in RobotsOutcomes}

crawler ==
    <<pc, playwright, browser, allowed_domains, url_queue, seen_urls,
      downloaded_files, files, dirs, temps, stack, pushCount, popCount,
      fetched, last, done>>

\* a crawler that was constructed and never run, on an empty Redis and disk
Idle ==
    /\ pc = "init"
    /\ playwright = "none"
    /\ browser = "none"
    /\ allowed_domains = {}
    /\ url_queue = <<>>
    /\ seen_urls = {}
    /\ downloaded_files = <<>>
    /\ files = {}
    /\ dirs = {}
    /\ temps = {}
    /\ stack = <<>>
    /\ pushCount = <<>>
    /\ popCount = <<>>
    /\ fetched = {}
    /\ last = NoDownload
    /\ done = {}

CallInit ==
    /\ Idle
    /\ probe \in Calls
    /\ answer = None
    /\ producers = <<>>

CallDetectContentType ==
    /\ probe.function = "detect_content_type"
    /\ answer = None
    /\ answer' = detect_content_type(probe.arg)
    /\ UNCHANGED <<crawler, probe, producers>>

CallGetDomain ==
    /\ probe.function = "get_domain"
    /\ answer = None
    /\ answer' = get_domain(probe.arg)
    /\ UNCHANGED <<crawler, probe, producers>>

CallCanFetch ==
    /\ probe.function = "can_fetch"
    /\ answer = None
    /\ answer' = can_fetch(probe.arg, probe.robots)
    /\ UNCHANGED <<crawler, probe, producers>>

CallNext ==
    \/ CallDetectContentType
    \/ CallGetDomain
    \/ CallCanFetch

CallSpec == CallInit /\ [][CallNext]_vars

(***************************************************************************)
(* Several crawlers on one Redis: each takes the links of a page it parsed *)
(* through the loop of lines 352-356, one Redis command at a time.  Redis  *)
(* runs each command atomically and nothing groups the three.              *)
(***************************************************************************)
NumProducers == 2

\* all_links of the producers: the page links of the seed page, in some order
ProducerLinks == {<<Page2>>, <<Page2, Doc3>>, <<Doc3, Page2>>}

ProducerInit ==
    /\ Idle
    /\ probe = None
    /\ answer = None
    /\ producers \in [1..NumProducers ->
                         {[links |-> ls, at |-> "sismember"] : ls \in ProducerLinks}]

\* line 353: the link was seen, the loop goes to the next link
SismemberSeen(p) ==
    /\ producers[p].at = "sismember"
    /\ producers[p].links # <<>>
    /\ Head(producers[p].links) \in seen_urls
    /\ producers' = [producers EXCEPT ![p].links = Tail(@)]
    /\ UNCHANGED <<crawler, probe, answer>>

\* line 353: the link was not seen
SismemberNew(p) ==
    /\ producers[p].at = "sismember"
    /\ producers[p].links # <<>>
    /\ Head(producers[p].links) \notin seen_urls
    /\ producers' = [producers EXCEPT ![p].at = "rpush"]
    /\ UNCHANGED <<crawler, probe, answer>>

\* line 354
Rpush(p) ==
    /\ producers[p].at = "rpush"
    /\ url_queue' = Append(url_queue, Head(producers[p].links))
    /\ producers' = [producers EXCEPT ![p].at = "sadd"]
    /\ UNCHANGED <<pc, render, allowed_domains, seen_urls, downloaded_files,
                   disk, stack, pushCount, popCount, fetched, last, done,
                   probe, answer>>

\* line 355, and the loop goes to the next link
Sadd(p) ==
    /\ producers[p].at = "sadd"
    /\ seen_urls' = seen_urls \cup {Head(producers[p].links)}
    /\ producers' = [producers EXCEPT ![p].links = Tail(@),
                                      ![p].at = "sismember"]
    /\ UNCHANGED <<pc, render, allowed_domains, url_queue, downloaded_files,
                   disk, stack, pushCount, popCount, fetched, last, done,
                   probe, answer>>

ProducerNext ==
    \E p \in 1..NumProducers :
        \/ SismemberSeen(p)
        \/ SismemberNew(p)
        \/ Rpush(p)
        \/ Sadd(p)

ProducerSpec == ProducerInit /\ [][ProducerNext]_vars

(***************************************************************************)
(* The crawl loop of a run whose seed file lists two documents and no      *)
(* page: what the saves of one run do to each other on disk.               *)
(***************************************************************************)
\* urls after the shuffle: two different documents
DocumentSeeds ==
    {urls \in DocUrls \X DocUrls : urls[1] # urls[2]}

\* the state lines 401-421 leave for these seeds on an empty Redis and disk:
\* each is pushed at the head (both end in .pdf)
DocumentsSeeded ==
    /\ pc = "crawling"
    /\ playwright = "running"
    /\ browser = "running"
    /\ \E urls \in DocumentSeeds :
          /\ allowed_domains = {UrlFacts[urls[i]].domain : i \in 1..2}
          /\ url_queue = seed_urls(urls, <<>>, {}).queue
          /\ seen_urls = seed_urls(urls, <<>>, {}).seen
          /\ pushCount = BumpAll(<<>>, seed_urls(urls, <<>>, {}).pushed)
    /\ downloaded_files = <<>>
    /\ files = {}
    /\ dirs = {}
    /\ temps = {}
    /\ stack = <<>>
    /\ popCount = <<>>
    /\ fetched = {}
    /\ last = NoDownload
    /\ done = {}
    /\ Alone

DocumentsNext ==
    \/ Dequeue
    \/ EmptyWait
    \/ Wake
    \/ DownloadDirect
    \/ DirectFetchFails

DocumentsSpec == DocumentsSeeded /\ [][DocumentsNext]_vars

(***************************************************************************)
(* Properties.                                                             *)
(***************************************************************************)
\* C1: within one run, each distinct URL is pushed onto url_queue at most
\* once and dequeued by the crawl loop at most once, however often the seed
\* file and the pages offer it.
C1_PushedAndDequeuedOnce ==
    /\ \A u \in DOMAIN pushCount : pushCount[u] <= 1
    /\ \A u \in DOMAIN popCount : popCount[u] <= 1

\* the seed page, listed twice in the seed file, was dequeued; the page it
\* links to was rendered and links back to it
C1_Witness ==
    /\ SeedPage \in DOMAIN popCount
    /\ pushCount[SeedPage] = 1
    /\ [url |-> Page2, via |-> "rendered", result |-> TRUE] \in done

\* C2: every network fetch made by process_url is preceded, in the same call,
\* by the politeness check can_fetch on that URL (and a denied URL is never
\* fetched).  process_url never calls can_fetch.
C2_FetchAfterRobotsCheck ==
    \A f \in fetched : f.robots # "unchecked"

\* C3: from the reset of the frontier on, every URL in url_queue has a domain
\* (get_domain) that is a member of allowed_domains.
C3_QueuedDomainsAllowed ==
    pc \in {"seeding", "crawling", "processing", "empty_wait"} =>
        \A i \in 1..Len(url_queue) :
            UrlFacts[url_queue[i]].domain \in allowed_domains

\* the seed page was rendered, its link to cdn.other.org was dropped and its
\* link to docs.example.co.uk is queued
C3_Witness ==
    /\ pc = "crawling"
    /\ [url |-> SeedPage, via |-> "rendered", result |-> TRUE] \in done
    /\ \E i \in 1..Len(url_queue) : url_queue[i] = Page2
    /\ "https://cdn.other.org/a" \notin seen_urls

\* C4: every entry of downloaded_files carries the non-null file path and
\* year of an artifact that was stored.
C4_LogOnlyStoredArtifacts ==
    \A i \in 1..Len(downloaded_files) :
        /\ downloaded_files[i].file_path # None
        /\ downloaded_files[i].year # None
        /\ \E f \in files : f.path = downloaded_files[i].file_path

\* C5: a PDF body that is encrypted or holds a copyright marker is never
\* stored, whatever content type the server declared.
C5_NoProtectedPdfStored ==
    (/\ last.content # None
     /\ Content[last.content].head = "%PDF-"
     /\ \/ Content[last.content].encrypted
        \/ ContentFacts[last.content].copyright)
    => last.path = None

\* int(y) of a string of four digits
YearNumber(y) ==
    LET d(i) == Find(DigitChars, Ch(y, i)) - 1
    IN  1000 * d(1) + 100 * d(2) + 10 * d(3) + d(4)

\* the numerically smallest year of a set of candidates, the current year
\* when the set is empty
EarliestOf(S) ==
    IF S = {} THEN CurrentYear
    ELSE CHOOSE y \in S : \A z \in S : YearNumber(y) <= YearNumber(z)

EarliestCandidate ==
    [u \in DocUrls, content_type \in ContentTypes, c \in ContentNames |->
        EarliestOf({Candidates[u, content_type, c][i] :
                       i \in DOMAIN Candidates[u, content_type, c]})]

\* C6: the year save_file returns is the smallest of the non-null candidates,
\* the current year when there is none; it is a function of the set of
\* candidates.
C6_YearIsEarliestCandidate ==
    last.path # None =>
        last.year = EarliestCandidate[last.url, last.content_type, last.content]

\* a document was stored whose candidates are 2021 (content), 2019 (URL) and
\* 2023 (filename)
C6_Witness ==
    /\ last.path # None
    /\ Candidates[last.url, last.content_type, last.content]
          = <<"2021", "2019", "2023">>
    /\ last.year = "2019"

\* C7: save_file returns no path and no year for content of fewer than 50
\* bytes, making no directory below the domain's directory, and stores
\* content of 50 bytes or more (unless the file system fails).
C7_SizeFloor ==
    (last.content # None /\ last.accepted) =>
        /\ Content[last.content].size < 50 =>
              /\ last.path = None
              /\ last.year = None
              /\ last.newdirs \subseteq
                    {DownloadFacts[last.url, last.content_type,
                                   last.content].plan.domain_dir}
        /\ (Content[last.content].size >= 50 /\ last.fault = "none") =>
              /\ last.path # None
              /\ \E f \in files : f.path = last.path

\* a body of exactly 50 bytes was stored
C7_Witness ==
    /\ last.content = "Xml50"
    /\ last.accepted
    /\ last.path # None

\* C8, as stated: get_domain of https://docs.example.co.uk/x and of
\* https://www.example.co.uk/y is example.co.uk.
C8_BothExampleCoUk ==
    \A i \in 1..Len(stack) :
        stack[i].url \in {Page2, SeedPage} => stack[i].domain = "example.co.uk"

\* C8, amended: get_domain of both URLs is co.uk, the last two labels of the
\* host.
C8_BothCoUk ==
    \A i \in 1..Len(stack) :
        stack[i].url \in {Page2, SeedPage} => stack[i].domain = "co.uk"

\* process_url runs on https://docs.example.co.uk/x, queued by the page
\* https://www.example.co.uk/y
C8_Witness ==
    /\ SeedPage \in DOMAIN popCount
    /\ \E i \in 1..Len(stack) : stack[i].url = Page2 /\ stack[i].domain = "co.uk"

\* C9: when a page was processed that references a document not in
\* seen_urls through an iframe/object/embed/source element or an anchor, the
\* document was fetched during the processing of the page.
C9_EmbeddedDocumentFetched ==
    \A d \in done :
        (d.url = SeedPage /\ d.result /\ ExtDoc \notin seen_urls) =>
            \E f \in fetched : f.url = ExtDoc

\* the body is a valid, unencrypted PDF of 1200 bytes without a copyright
\* marker
C10_Body(c) ==
    /\ Content[c].head = "%PDF-"
    /\ Content[c].valid
    /\ ~Content[c].encrypted
    /\ Content[c].size = 1200
    /\ ~ContentFacts[c].copyright

\* the file is at <root>/example.com/2022/doc.pdf and the log holds one entry
\* of the URL, with year 2022
C10_Stored ==
    /\ [path |-> "/cwd/data/raw/example.com/2022/doc.pdf", url |-> SeedDoc] \in files
    /\ Cardinality({i \in 1..Len(downloaded_files) :
                       downloaded_files[i].url = SeedDoc}) = 1
    /\ \A i \in 1..Len(downloaded_files) :
          downloaded_files[i].url = SeedDoc =>
              /\ downloaded_files[i].year = "2022"
              /\ downloaded_files[i].file_path
                    = "/cwd/data/raw/example.com/2022/doc.pdf"

C12_DocumentsAtHead ==
    pc \in {"crawling", "processing", "empty_wait"} =>
        \A i, j \in 1..Len(url_queue) :
            (i < j /\ UrlFacts[url_queue[j]].direct)
                => UrlFacts[url_queue[i]].direct

\* C13: a storage error while processing a URL is a false result of
\* process_url: the call that fetched a document and could not write or
\* rename its file returned False.
C13_StorageErrorIsFalse ==
    \A d \in done :
        (d.url = last.url /\ d.via = "direct" /\ last.fault # "none")
            => d.result = FALSE

\* C14: run() ends only by a cancellation or by a failure of INIT: every
\* step that ends the run either is the cancellation or starts in INIT.
C14_EndsOnlyByCancelOrInit ==
    [][(pc' \in {"stopped", "failed"} /\ pc \notin {"stopped", "failed"})
          => (pc = "init" \/ pc' = "stopped")]_vars

AllDigits(s) == \A i \in 1..Len(s) : IsDigit(Ch(s, i))

\* path is <OUTPUT_DIR>/<domain of url>/<four digits>/<a name without "/">
WellPlaced(path, url) ==
    LET root == Split(OUTPUT_DIR, "/")
        laid(parts, n) ==
            /\ Len(parts) = n + 3
            /\ SubSeq(parts, 1, n) = root
            /\ parts[n + 1] = get_domain(url)
            /\ Len(parts[n + 2]) = 4
            /\ AllDigits(parts[n + 2])
            /\ parts[n + 3] # ""
    IN  laid(Split(path, "/"), Len(root))

\* the files save_file can leave at a final path, those of them that are
\* well placed, with the file an earlier run left
WellPlacedFiles ==
    {f \in {[path |-> DownloadFacts[k].plan.final_path, url |-> k[1]] :
               k \in DOMAIN DownloadFacts}
           \cup {[path |-> StaleLog.file_path, url |-> StaleLog.url]} :
        WellPlaced(f.path, f.url)}

C16_QueuedAtMostOnce ==
    \A i, j \in 1..Len(url_queue) : url_queue[i] = url_queue[j] => i = j

\* C17: no URL is processed twice in a run, so no two entries of the log of
\* downloads made since the reset are for the same URL.
C17_DownloadedOnce ==
    pc \in {"seeding", "crawling", "processing", "empty_wait"} =>
        \A i, j \in 1..Len(downloaded_files) :
            downloaded_files[i].url = downloaded_files[j].url => i = j

\* the host of the URL without its port and without a leading www. label,
\* cut to its last two labels
StatedDomain(url) ==
    LET host == Split(UrlNetloc(url), ":")[1]
        cut(labels, whole) ==
            IF Len(labels) >= 2
            THEN labels[Len(labels) - 1] \o "." \o labels[Len(labels)]
            ELSE whole
        of(h) == cut(Split(h, "."), h)
    IN  of(IF StartsWith(host, "www.") THEN From(host, 5) ELSE host)

\* C18: get_domain returns the last two labels of the host once a leading
\* www. label and the port are stripped, the whole host when it has fewer
\* than two labels.
C18_DomainAsStated ==
    (probe.function = "get_domain" /\ answer # None)
        => answer = StatedDomain(probe.arg)

\* whether the path component of the URL ends in .pdf or .xml, whatever
\* the case of its letters
PathIsDocument ==
    [u \in KnownUrls |->
        LET ends(low) == EndsWith(low, ".pdf") \/ EndsWith(low, ".xml")
        IN  ends(Lower(UrlPath(u)))]

\* C19: process_url fetches a URL in the direct tier exactly when the path
\* component of the URL ends in a document extension.
C19_TierByPath ==
    \A f \in fetched : (f.tier = "direct") <=> PathIsDocument[f.url]

\* C20: a process_url call whose rendering gave nothing and whose raw GET
\* answered 200 returned True, and every document the page embeds that was
\* not in seen_urls was fetched.
C20_FallbackProcessesMarkup ==
    \A d \in done :
        d.via = "fallback" =>
            /\ d.result
            /\ \A i \in 1..Len(UrlFacts[d.url].embedded) :
                  \/ UrlFacts[d.url].embedded[i] \in seen_urls
                  \/ \E f \in fetched : f.url = UrlFacts[d.url].embedded[i]

\* C21: process_url reports success for a direct-document URL only when an
\* artifact was stored: the call that downloaded the URL and got no path
\* from save_file returned False.
C21_SuccessOnlyWhenStored ==
    \A d \in done :
        (d.via = "direct" /\ d.url = last.url /\ d.result)
            => last.path # None

\* C22: when save_file returned no path, no temp_download file is left in
\* the directory of the domain.
C22_NoTempAfterFailedSave ==
    (last.url # None /\ last.accepted /\ last.path = None)
        => path_join(path_join(OUTPUT_DIR, UrlFacts[last.url].domain),
                     "temp_download") \notin temps

\* the year of the creation timestamp of the body, else of its modification
\* timestamp, None when the body is no readable PDF or has neither
MetadataYear ==
    [c \in ContentNames |->
        LET year(date, k) == IF MatchAt(date, ":", k + 1)
                             THEN SubSeq(date, k + 2, k + 5)
                             ELSE SubSeq(date, k + 1, k + 4)
            of(dates) == IF dates = <<>> THEN None
                         ELSE year(dates[1], Find(dates[1], "D"))
        IN  IF ~Content[c].valid \/ Content[c].encrypted THEN None
            ELSE of(SelectSeq(<<Content[c].creationDate, Content[c].modDate>>,
                              LAMBDA date : date # "" /\ MetaDateMatches(date)))]

\* C23: the year a PDF is stored under is never later than the year of its
\* metadata timestamp, that year being one of the candidates.
C23_YearNotAfterMetadata ==
    (last.path # None /\ MetadataYear[last.content] # None)
        => YearNumber(last.year) <= YearNumber(MetadataYear[last.content])

\* C24: can_fetch returns the verdict of robots.txt when it was fetched and
\* parsed, and returns without a verdict, raising nothing, when the fetch or
\* the parse failed.
C24_VerdictOrNone ==
    (probe.function = "can_fetch" /\ answer # None) =>
        answer = CASE probe.robots = "allow" -> "return True"
                   [] probe.robots = "deny" -> "return False"
                   [] OTHER -> "return None"

\* C25: the seeding starts on an empty url_queue and an empty seen_urls, a
\* URL an earlier run left is in the queue or dequeued only when this run
\* pushed it, and every step keeps the entries of downloaded_files, new
\* entries going in front of them.
C25_ResetKeepsOnlyTheLog ==
    /\ [](pc = "seeding" => (url_queue = <<>> /\ seen_urls = {}))
    /\ [](pc \in {"seeding", "crawling", "processing", "empty_wait"} =>
             /\ \A i \in 1..Len(url_queue) :
                   url_queue[i] # "" => url_queue[i] \in DOMAIN pushCount
             /\ DOMAIN popCount \subseteq DOMAIN pushCount
             /\ StaleUrl \notin DOMAIN pushCount)
    /\ [][/\ Len(downloaded_files') >= Len(downloaded_files)
          /\ SubSeq(downloaded_files',
                    Len(downloaded_files') - Len(downloaded_files) + 1,
                    Len(downloaded_files')) = downloaded_files]_vars

\* a run that started on the queue, the set and the log of an earlier run
\* has processed its seed page, which the old set held, and has logged a
\* download in front of the old entry
C25_Witness ==
    /\ pc = "crawling"
    /\ SeedPage \in DOMAIN popCount
    /\ Len(downloaded_files) >= 2
    /\ downloaded_files[Len(downloaded_files)] = StaleLog

\* C26: when run() has exited, neither the Playwright driver nor the browser
\* is still running.
C26_TeardownBeforeExit ==
    pc \in {"stopped", "failed"} =>
        (playwright # "running" /\ browser # "running")

\* C27: from the end of the reset on, between the steps of the crawl loop
\* every URL of url_queue is in seen_urls, and no step takes a URL out of
\* seen_urls.
C27_QueuedAreSeen ==
    /\ [](pc \in {"seeding", "crawling", "processing", "empty_wait"} =>
             \A i \in 1..Len(url_queue) : url_queue[i] \in seen_urls)
    /\ [][pc \notin {"init", "reset"} => seen_urls \subseteq seen_urls']_vars

\* the links of the seed page wait in the queue, and seen_urls holds them
\* with the seeds that were dequeued before
C27_Witness ==
    /\ pc = "crawling"
    /\ url_queue = <<Page2, Doc3>>
    /\ {SeedPage, SeedDoc, Page2, Doc3} \subseteq seen_urls
    /\ SeedDoc \in DOMAIN popCount

\* C28: the nesting of process_url calls is bounded by the pages there are:
\* no URL is being processed inside its own processing.
C28_NoUrlInsideItself ==
    \A i, j \in 1..Len(stack) : stack[i].url = stack[j].url => i = j

\* the URLs a run can put in url_queue: the seeds, and the links of known
\* pages that extract_links keeps under the allowed domains of the seeds
Queueable ==
    LET seeds == {SeedUrls[i] : i \in 1..Len(SeedUrls)} \ {""}
        kept(allowed) ==
            {l \in UNION {{UrlFacts[u].links[i] :
                              i \in 1..Len(UrlFacts[u].links)} : u \in KnownUrls} :
                link_allowed(l, allowed)}
    IN  seeds \cup kept({UrlFacts[u].domain : u \in seeds})

\* C29: when nothing cancels the run, every URL that is in url_queue after
\* the reset is eventually dequeued, and the process_url call made for it
\* returns.
C29_QueuedIsProcessed ==
    \A u \in Queueable :
        (/\ pc \in {"crawling", "processing", "empty_wait"}
         /\ \E i \in 1..Len(url_queue) : url_queue[i] = u)
            ~> (/\ pc = "crawling"
                /\ u \in DOMAIN popCount
                /\ \E d \in done : d.url = u)

\* the document linked from the seed page has waited behind a page in the
\* queue, was dequeued after it and its call has returned
C29_Witness ==
    /\ pc = "crawling"
    /\ url_queue = <<>>
    /\ Page2 \in DOMAIN popCount
    /\ \E d \in done : d.url = Doc3

\* C30: two different URLs that were both archived were archived at
\* different final paths.
C30_DistinctUrlsDistinctPaths ==
    \A i, j \in 1..Len(downloaded_files) :
        (/\ downloaded_files[i].file_path # None
         /\ downloaded_files[i].file_path = downloaded_files[j].file_path)
            => downloaded_files[i].url = downloaded_files[j].url

=============================================================================
